---- MODULE Spec2Model ----
(***************************************************************************)
(* Model of src/stockmarket.py: class StockMarket, the Global Beverage     *)
(* Corporation Exchange.  The object's state is the trade dictionary       *)
(* self.trades; the wall clock read by datetime.datetime.now() is the      *)
(* variable now (in minutes).  Every public method is one action; its      *)
(* outcome (the returned value or the raised exception) is recorded in     *)
(* lastCall.                                                               *)
(*                                                                         *)
(* Numbers are integers where the code stores them (quantity, price) and   *)
(* exact fractions [num, den] in lowest terms where the code divides.      *)
(* Exceptions are named by kind:                                           *)
(*   UnknownSymbol        ValueError("Symbol does not exist ...")           *)
(*   InvalidOrderSide     ValueError("Order should be either ...")          *)
(*   InvalidNumericFormat ValueError raised by float(str)                   *)
(*   InvalidPrice         ValueError("Price is invalid")                    *)
(*   DivisionByZero       ValueError("Cannot divide by zero")               *)
(*   NoTradesInWindow     ValueError("No result - because total traded      *)
(*                        quantity is 0")                                   *)
(*   ZeroDivisionError    the interpreter's 1/0 in calculate_gbce           *)
(*   TypeError            round() of a complex number in calculate_gbce     *)
(***************************************************************************)
EXTENDS Integers, Sequences, FiniteSets, TLC

VARIABLES trades, now, lastCall

vars == <<trades, now, lastCall>>

----------------------------------------------------------------------------
(* Bounds of the model *)

\* at most this many trades are recorded in one run
MaxTrades == 2

\* the clock stops advancing at this minute
MaxTime == 6

----------------------------------------------------------------------------
(* Program constants *)

\* datetime.timedelta(minutes=5)
WindowMinutes == 5

\* self.exchange_data
exchange_data ==
    [TEA |-> [type |-> "Common",    last_dividend |-> 0,  fixed_dividend |-> "None", par_value |-> 100],
     POP |-> [type |-> "Common",    last_dividend |-> 8,  fixed_dividend |-> "None", par_value |-> 100],
     ALE |-> [type |-> "Common",    last_dividend |-> 23, fixed_dividend |-> "None", par_value |-> 60],
     GIN |-> [type |-> "Preferred", last_dividend |-> 8,  fixed_dividend |-> 2, par_value |-> 100],
     JOE |-> [type |-> "Common",    last_dividend |-> 13, fixed_dividend |-> "None", par_value |-> 250]]

\* self.exchange_data.keys()
Catalog == DOMAIN exchange_data

----------------------------------------------------------------------------
(* Values, outcomes and exact fractions *)

Ok(v) == [ok |-> TRUE, value |-> v, error |-> "none"]

Err(e) == [ok |-> FALSE, value |-> 0, error |-> e]

\* a Python number argument
Num(n) == [type |-> "num", val |-> n]

\* a Python str argument, as its sequence of characters
Str(s) == [type |-> "str", val |-> s]

Abs(n) == IF n < 0 THEN -n ELSE n

RECURSIVE GCD(_, _)
GCD(a, b) == IF b = 0 THEN a ELSE GCD(b, a % b)

\* the quotient n / d (d # 0) as a fraction in lowest terms, den > 0
Quot(n, d) ==
    LET g == GCD(Abs(n), Abs(d))
        s == IF d < 0 THEN -1 ELSE 1
    IN  [num |-> (s * n) \div g, den |-> (s * d) \div g]

\* the product of two fractions
Times(x, y) == Quot(x.num * y.num, x.den * y.den)

Digits == {"0", "1", "2", "3", "4", "5", "6", "7", "8", "9"}

DigitVal(c) ==
    CASE c = "0" -> 0 [] c = "1" -> 1 [] c = "2" -> 2 [] c = "3" -> 3
      [] c = "4" -> 4 [] c = "5" -> 5 [] c = "6" -> 6 [] c = "7" -> 7
      [] c = "8" -> 8 [] c = "9" -> 9

RECURSIVE DigitsVal(_)
DigitsVal(s) ==
    IF s = <<>> THEN 0
    ELSE 10 * DigitsVal(SubSeq(s, 1, Len(s) - 1)) + DigitVal(s[Len(s)])

\* float(s) for strings over digits, "-" and letters: an optional sign
\* followed by one or more digits, anything else raises ValueError
float(s) ==
    LET body == IF s # <<>> /\ s[1] = "-" THEN Tail(s) ELSE s
        neg  == s # <<>> /\ s[1] = "-"
    IN  IF body # <<>> /\ \A i \in 1..Len(body) : body[i] \in Digits
        THEN Ok(IF neg THEN -DigitsVal(body) ELSE DigitsVal(body))
        ELSE Err("InvalidNumericFormat")

----------------------------------------------------------------------------
(* The trade dictionary: a Python dict keeps its keys in insertion order,  *)
(* so it is a sequence of entries [symbol, list].                          *)

\* self.trades.keys(), in iteration order
Keys(tr) == [i \in 1..Len(tr) |-> tr[i].symbol]

\* symbol in self.trades
HasKey(tr, symbol) == \E i \in 1..Len(tr) : tr[i].symbol = symbol

\* self.trades[symbol]
Get(tr, symbol) == tr[CHOOSE i \in 1..Len(tr) : tr[i].symbol = symbol].list

\* the number of trades in the whole dictionary
RECURSIVE TotalTrades(_)
TotalTrades(tr) ==
    IF tr = <<>> THEN 0 ELSE Len(Head(tr).list) + TotalTrades(Tail(tr))

----------------------------------------------------------------------------
(* Methods *)

validate_stock_symbol(symbol) ==
    IF symbol \notin Catalog THEN Err("UnknownSymbol") ELSE Ok(symbol)

str_to_float(value) ==
    IF value.type = "str" THEN float(value.val) ELSE Ok(value.val)

validate_order(order) ==
    IF order # "Buy" /\ order # "Sell" THEN Err("InvalidOrderSide") ELSE Ok(order)

\* calculate_dividend_yield with the floor division // in place of /
calculate_dividend_yield_floor(symbol, priceArg) ==
    LET sym   == validate_stock_symbol(symbol)
        price == str_to_float(priceArg)
    IN  IF ~sym.ok THEN sym
        ELSE IF ~price.ok THEN price
        ELSE LET stock == exchange_data[symbol]
             IN  IF price.value <= 0 THEN Err("InvalidPrice")
                 ELSE IF stock.type = "Common"
                      THEN Ok(Quot(stock.last_dividend \div price.value, 1))
                      ELSE Ok(Quot((stock.fixed_dividend * stock.par_value) \div price.value, 1))

calculate_dividend_yield(symbol, priceArg) ==
    LET sym   == validate_stock_symbol(symbol)
        price == str_to_float(priceArg)
    IN  IF ~sym.ok THEN sym
        ELSE IF ~price.ok THEN price
        ELSE LET stock == exchange_data[symbol]
             IN  IF price.value <= 0 THEN Err("InvalidPrice")
                 ELSE IF stock.type = "Common"
                      THEN Ok(Quot(stock.last_dividend, price.value))
                      ELSE Ok(Quot(stock.fixed_dividend * stock.par_value, price.value))

calculate_pe_ratio(symbol, priceArg) ==
    LET sym   == validate_stock_symbol(symbol)
        price == str_to_float(priceArg)
    IN  IF ~sym.ok THEN sym
        ELSE IF ~price.ok THEN price
        ELSE LET dividend == calculate_dividend_yield(symbol, Num(price.value))
             IN  IF ~dividend.ok THEN dividend
                 ELSE IF dividend.value.num = 0 THEN Err("DivisionByZero")
                 ELSE Ok(Quot(price.value * dividend.value.den, dividend.value.num))


\* Accumulate with the trade stamped exactly at the window start left out
RECURSIVE AccumulateStrict(_, _)
AccumulateStrict(list, time_before_5_min) ==
    IF list = <<>> THEN [total_trade_amount |-> 0, total_qty |-> 0]
    ELSE LET rest == AccumulateStrict(SubSeq(list, 1, Len(list) - 1), time_before_5_min)
             t    == list[Len(list)]
         IN  IF t.timestamp > time_before_5_min
             THEN [total_trade_amount |-> rest.total_trade_amount + t.traded_price * t.quantity,
                   total_qty          |-> rest.total_qty + t.quantity]
             ELSE rest

\* Accumulate without the window test
RECURSIVE AccumulateAll(_, _)
AccumulateAll(list, time_before_5_min) ==
    IF list = <<>> THEN [total_trade_amount |-> 0, total_qty |-> 0]
    ELSE LET rest == AccumulateAll(SubSeq(list, 1, Len(list) - 1), time_before_5_min)
             t    == list[Len(list)]
         IN  [total_trade_amount |-> rest.total_trade_amount + t.traded_price * t.quantity,
              total_qty          |-> rest.total_qty + t.quantity]

\* Accumulate summing the prices without their quantities
RECURSIVE AccumulateUnweighted(_, _)
AccumulateUnweighted(list, time_before_5_min) ==
    IF list = <<>> THEN [total_trade_amount |-> 0, total_qty |-> 0]
    ELSE LET rest == AccumulateUnweighted(SubSeq(list, 1, Len(list) - 1), time_before_5_min)
             t    == list[Len(list)]
         IN  IF t.timestamp >= time_before_5_min
             THEN [total_trade_amount |-> rest.total_trade_amount + t.traded_price,
                   total_qty          |-> rest.total_qty + t.quantity]
             ELSE rest

\* the loop of calculate_vws_price over one trade list: the sums of
\* traded_price * quantity and of quantity over the trades stamped at or
\* after time_before_5_min
RECURSIVE Accumulate(_, _)
Accumulate(list, time_before_5_min) ==
    IF list = <<>> THEN [total_trade_amount |-> 0, total_qty |-> 0]
    ELSE LET rest == Accumulate(SubSeq(list, 1, Len(list) - 1), time_before_5_min)
             t    == list[Len(list)]
         IN  IF t.timestamp >= time_before_5_min
             THEN [total_trade_amount |-> rest.total_trade_amount + t.traded_price * t.quantity,
                   total_qty          |-> rest.total_qty + t.quantity]
             ELSE rest

\* calculate_vws_price raising only when no trade lies in the window, and
\* dividing by the accumulated quantity whatever it is
calculate_vws_price_by_count(tr, t, symbol) ==
    LET sym == validate_stock_symbol(symbol)
        time_before_5_min == t - WindowMinutes
    IN  IF ~sym.ok THEN sym
        ELSE IF HasKey(tr, symbol)
             THEN LET acc == Accumulate(Get(tr, symbol), time_before_5_min)
                  IN  IF \A i \in 1..Len(Get(tr, symbol)) :
                             Get(tr, symbol)[i].timestamp < time_before_5_min
                      THEN Err("NoTradesInWindow")
                      ELSE IF acc.total_qty = 0 THEN Err("ZeroDivisionError")
                      ELSE Ok(Quot(acc.total_trade_amount, acc.total_qty))
             ELSE Ok(Quot(0, 1))

\* calculate_vws_price(symbol) on dictionary tr at clock reading t
calculate_vws_price(tr, t, symbol) ==
    LET sym == validate_stock_symbol(symbol)
        time_before_5_min == t - WindowMinutes
    IN  IF ~sym.ok THEN sym
        ELSE IF HasKey(tr, symbol)
             THEN LET acc == Accumulate(Get(tr, symbol), time_before_5_min)
                  IN  IF acc.total_qty = 0 THEN Err("NoTradesInWindow")
                      ELSE Ok(Quot(acc.total_trade_amount, acc.total_qty))
             ELSE Ok(Quot(0, 1))

\* VwsProduct leaving out the symbols whose price cannot be computed
RECURSIVE VwsProductSkipping(_, _, _)
VwsProductSkipping(tr, t, n) ==
    IF n = 0 THEN Ok(Quot(1, 1))
    ELSE LET before == VwsProductSkipping(tr, t, n - 1)
             vws    == calculate_vws_price(tr, t, Keys(tr)[n])
         IN  IF ~vws.ok THEN before
             ELSE Ok(Times(before.value, vws.value))

\* the loop of calculate_gbce over the first n keys: the running product, or
\* the first exception raised by calculate_vws_price
RECURSIVE VwsProduct(_, _, _)
VwsProduct(tr, t, n) ==
    IF n = 0 THEN Ok(Quot(1, 1))
    ELSE LET before == VwsProduct(tr, t, n - 1)
             vws    == calculate_vws_price(tr, t, Keys(tr)[n])
         IN  IF ~before.ok THEN before
             ELSE IF ~vws.ok THEN vws
             ELSE Ok(Times(before.value, vws.value))

\* calculate_gbce returning the empty product for an empty dictionary
calculate_gbce_empty_is_one(tr, t) ==
    LET total_vws_price == VwsProduct(tr, t, Len(tr))
    IN  IF ~total_vws_price.ok THEN total_vws_price
        ELSE IF Len(tr) = 0 THEN Ok([root |-> 1, of |-> Quot(1, 1)])
        ELSE IF total_vws_price.value.num < 0 /\ Len(tr) > 1 THEN Err("TypeError")
        ELSE Ok([root |-> Len(tr), of |-> total_vws_price.value])

\* calculate_gbce() on dictionary tr at clock reading t.  The value
\* round(total ** (1 / n), 3) is kept as the pair [root |-> n, of |-> total];
\* a negative total with n > 1 makes the power complex, which round() rejects.
calculate_gbce(tr, t) ==
    LET total_vws_price == VwsProduct(tr, t, Len(tr))
    IN  IF ~total_vws_price.ok THEN total_vws_price
        ELSE IF Len(tr) = 0 THEN Err("ZeroDivisionError")
        ELSE IF total_vws_price.value.num < 0 /\ Len(tr) > 1 THEN Err("TypeError")
        ELSE Ok([root |-> Len(tr), of |-> total_vws_price.value])

\* the argument left out of a call, so that the parameter takes its default
Omitted == "<omitted>"

\* Store putting the new trade at the head of the list
StoreAtHead(tr, symbol, trade_data) ==
    IF ~HasKey(tr, symbol)
    THEN Append(tr, [symbol |-> symbol, list |-> <<trade_data>>])
    ELSE [i \in 1..Len(tr) |->
            IF tr[i].symbol = symbol
            THEN [tr[i] EXCEPT !.list = <<trade_data>> \o @]
            ELSE tr[i]]

\* self.trades after self.trades[symbol] gets trade_data
Store(tr, symbol, trade_data) ==
    IF ~HasKey(tr, symbol)
    THEN Append(tr, [symbol |-> symbol, list |-> <<trade_data>>])
    ELSE [i \in 1..Len(tr) |->
            IF tr[i].symbol = symbol
            THEN [tr[i] EXCEPT !.list = Append(@, trade_data)]
            ELSE tr[i]]

\* record_trade validating the order only after the trade is stored
record_trade_late_validation(tr, t, symbol, quantityArg, priceArg, orderArg) ==
    LET sym      == validate_stock_symbol(symbol)
        quantity == str_to_float(quantityArg)
        price    == str_to_float(priceArg)
        given    == IF orderArg = Omitted THEN "Buy" ELSE orderArg
        order    == validate_order(given)
    IN  IF ~sym.ok THEN [result |-> sym, trades |-> tr]
        ELSE IF ~quantity.ok THEN [result |-> quantity, trades |-> tr]
        ELSE IF ~price.ok THEN [result |-> price, trades |-> tr]
        ELSE LET trade_data == [timestamp    |-> t,
                                order        |-> IF given = "Buy" THEN "Buy" ELSE "Sell",
                                quantity     |-> quantity.value,
                                traded_price |-> price.value]
             IN  [result |-> IF order.ok THEN Ok(trade_data) ELSE order,
                  trades |-> Store(tr, symbol, trade_data)]

\* record_trade without the validation of the symbol
record_trade_any_symbol(tr, t, symbol, quantityArg, priceArg, orderArg) ==
    LET quantity == str_to_float(quantityArg)
        price    == str_to_float(priceArg)
        order    == validate_order(IF orderArg = Omitted THEN "Buy" ELSE orderArg)
    IN  IF ~quantity.ok THEN [result |-> quantity, trades |-> tr]
        ELSE IF ~price.ok THEN [result |-> price, trades |-> tr]
        ELSE IF ~order.ok THEN [result |-> order, trades |-> tr]
        ELSE LET trade_data == [timestamp    |-> t,
                                order        |-> IF order.value = "Buy" THEN "Buy" ELSE "Sell",
                                quantity     |-> quantity.value,
                                traded_price |-> price.value]
             IN  [result |-> Ok(trade_data), trades |-> Store(tr, symbol, trade_data)]

\* record_trade(symbol, quantity, price, order) on dictionary tr at clock
\* reading t: the outcome and the dictionary it leaves
record_trade(tr, t, symbol, quantityArg, priceArg, orderArg) ==
    LET sym      == validate_stock_symbol(symbol)
        quantity == str_to_float(quantityArg)
        price    == str_to_float(priceArg)
        order    == validate_order(IF orderArg = Omitted THEN "Buy" ELSE orderArg)
    IN  IF ~sym.ok THEN [result |-> sym, trades |-> tr]
        ELSE IF ~quantity.ok THEN [result |-> quantity, trades |-> tr]
        ELSE IF ~price.ok THEN [result |-> price, trades |-> tr]
        ELSE IF ~order.ok THEN [result |-> order, trades |-> tr]
        ELSE LET trade_data == [timestamp    |-> t,
                                order        |-> IF order.value = "Buy" THEN "Buy" ELSE "Sell",
                                quantity     |-> quantity.value,
                                traded_price |-> price.value]
             IN  [result |-> Ok(trade_data), trades |-> Store(tr, symbol, trade_data)]

----------------------------------------------------------------------------
(* Arguments the calls are made with *)

SymbolArgs == {"POP", "GIN", "XYZ"}

OrderArgs == {"Buy", "Hold"}

Trade(quantity, price, order) == [quantity |-> quantity, price |-> price, order |-> order]

\* quantity, price and order of the record_trade calls: numbers and numeric
\* strings, a zero and a negative quantity, both sides and the default side,
\* and one call for each way the arguments are rejected
TradeArgs ==
    {Trade(Num(1), Num(2), Omitted),
     Trade(Str(<<"2">>), Num(1), "Sell"),
     Trade(Num(0), Str(<<"2">>), "Buy"),
     Trade(Num(-1), Num(1), "Sell"),
     Trade(Str(<<"x">>), Num(1), Omitted),
     Trade(Num(1), Str(<<"-">>), Omitted),
     Trade(Num(1), Num(1), "Hold")}

\* symbols and prices of the dividend yield and P/E calls made between trades
QuoteSymbolArgs == {"TEA", "XYZ"}

QuotePriceArgs == {Num(0), Num(4)}

\* the clock moves on by a whole window, or by one minute more
TickSteps == {WindowMinutes, WindowMinutes + 1}

\* arguments of the pure calculations checked on their own
AllSymbolArgs == Catalog \cup {"XYZ"}

AllPriceArgs ==
    {Num(n) : n \in -2..12} \cup {Str(<<"1", "0">>), Str(<<"-", "3">>), Str(<<"0">>), Str(<<>>), Str(<<"1", "x">>)}

NoSymbol == "-"

NoOrder == "-"

NoNumber == Num(0)

\* a call that was made: the method, its arguments and its outcome
Call(op, symbol, quantity, price, order, result) ==
    [op |-> op, symbol |-> symbol, quantity |-> quantity, price |-> price,
     order |-> order, result |-> result]

----------------------------------------------------------------------------
(* The state machine *)

Init ==
    /\ trades = <<>>
    /\ now = 0
    /\ lastCall = Call("__init__", NoSymbol, NoNumber, NoNumber, NoOrder, Ok(0))

ValidateStockSymbol(symbol) ==
    /\ lastCall' = Call("validate_stock_symbol", symbol, NoNumber, NoNumber, NoOrder,
                        validate_stock_symbol(symbol))
    /\ UNCHANGED <<trades, now>>

ValidateOrder(order) ==
    /\ lastCall' = Call("validate_order", NoSymbol, NoNumber, NoNumber, order,
                        validate_order(order))
    /\ UNCHANGED <<trades, now>>

CalculateDividendYield(symbol, price) ==
    /\ lastCall' = Call("calculate_dividend_yield", symbol, NoNumber, price, NoOrder,
                        calculate_dividend_yield(symbol, price))
    /\ UNCHANGED <<trades, now>>

CalculatePeRatio(symbol, price) ==
    /\ lastCall' = Call("calculate_pe_ratio", symbol, NoNumber, price, NoOrder,
                        calculate_pe_ratio(symbol, price))
    /\ UNCHANGED <<trades, now>>

RecordTrade(symbol, quantity, price, order) ==
    /\ TotalTrades(trades) < MaxTrades
    /\ LET r == record_trade(trades, now, symbol, quantity, price, order)
       IN  /\ trades' = r.trades
           /\ lastCall' = Call("record_trade", symbol, quantity, price, order, r.result)
    /\ UNCHANGED now

CalculateVwsPrice(symbol) ==
    /\ lastCall' = Call("calculate_vws_price", symbol, NoNumber, NoNumber, NoOrder,
                        calculate_vws_price(trades, now, symbol))
    /\ UNCHANGED <<trades, now>>

CalculateGbce ==
    /\ lastCall' = Call("calculate_gbce", NoSymbol, NoNumber, NoNumber, NoOrder,
                        calculate_gbce(trades, now))
    /\ UNCHANGED <<trades, now>>

\* time passes between two calls
Tick(d) ==
    /\ now + d <= MaxTime
    /\ now' = now + d
    /\ lastCall' = Call("tick", NoSymbol, NoNumber, NoNumber, NoOrder, Ok(0))
    /\ UNCHANGED trades

Next ==
    \/ \E symbol \in SymbolArgs : ValidateStockSymbol(symbol)
    \/ \E order \in OrderArgs : ValidateOrder(order)
    \/ \E symbol \in QuoteSymbolArgs, price \in QuotePriceArgs :
          CalculateDividendYield(symbol, price)
    \/ \E symbol \in QuoteSymbolArgs, price \in QuotePriceArgs :
          CalculatePeRatio(symbol, price)
    \/ \E symbol \in SymbolArgs, a \in TradeArgs :
          RecordTrade(symbol, a.quantity, a.price, a.order)
    \/ \E symbol \in SymbolArgs : CalculateVwsPrice(symbol)
    \/ CalculateGbce
    \/ \E d \in TickSteps : Tick(d)

Spec == Init /\ [][Next]_vars

\* the dividend yield and the P/E ratio on their own, over every catalog
\* symbol and a range of prices
NextQuote ==
    \/ \E symbol \in AllSymbolArgs : ValidateStockSymbol(symbol)
    \/ \E symbol \in AllSymbolArgs, price \in AllPriceArgs :
          CalculateDividendYield(symbol, price)
    \/ \E symbol \in AllSymbolArgs, price \in AllPriceArgs :
          CalculatePeRatio(symbol, price)

SpecQuote == Init /\ [][NextQuote]_vars

----------------------------------------------------------------------------
(* Vocabulary of the properties *)

Failed(r, e) == ~r.ok /\ r.error = e

\* the outcome r is the value v
Returned(r, v) == r.ok /\ r.value = v

\* two outcomes are the same value or the same exception
SameOutcome(r1, r2) ==
    /\ r1.ok = r2.ok
    /\ IF r1.ok THEN r1.value = r2.value ELSE r1.error = r2.error

\* the trade list of a symbol, empty when the symbol has none
ListOf(tr, symbol) ==
    IF \E i \in 1..Len(tr) : tr[i].symbol = symbol
    THEN tr[CHOOSE i \in 1..Len(tr) : tr[i].symbol = symbol].list
    ELSE <<>>

IsPrefix(a, b) == Len(a) <= Len(b) /\ SubSeq(b, 1, Len(a)) = a

InWindow(t) == t.timestamp >= now - WindowMinutes

\* the trades of a list that lie in the trailing window, in list order
Recent(list) == SelectSeq(list, InWindow)

RECURSIVE SumQty(_)
SumQty(list) == IF list = <<>> THEN 0 ELSE Head(list).quantity + SumQty(Tail(list))

RECURSIVE SumAmount(_)
SumAmount(list) ==
    IF list = <<>> THEN 0
    ELSE Head(list).traded_price * Head(list).quantity + SumAmount(Tail(list))

\* the dictionary with the out-of-window trades of one symbol removed
WithoutOld(tr, symbol) ==
    [i \in 1..Len(tr) |->
        IF tr[i].symbol = symbol THEN [tr[i] EXCEPT !.list = Recent(@)] ELSE tr[i]]

\* every trade of the symbol is older than the window
Stale(tr, t, symbol) ==
    /\ HasKey(tr, symbol)
    /\ \A i \in 1..Len(Get(tr, symbol)) : Get(tr, symbol)[i].timestamp < t - WindowMinutes

Recorded == lastCall.op = "record_trade" /\ lastCall.result.ok

RecordedNext == lastCall'.op = "record_trade" /\ lastCall'.result.ok

VwsCalled == lastCall.op = "calculate_vws_price" /\ lastCall.symbol \in Catalog

GbceCalled == lastCall.op = "calculate_gbce"

PeCalled == lastCall.op = "calculate_pe_ratio"

----------------------------------------------------------------------------
(* C1 *)

\* C1: the trade store is append-only.  In every step, the trade list each
\* symbol had before the step is a prefix of the list it has after it (so
\* no trade is ever removed, reordered or changed), and a successful
\* record_trade(s, q, p, side) makes the list of s exactly one longer, with
\* the trade (q, p, side, now) in last position.
C1_AppendOnly ==
    [][ /\ \A s \in Catalog \cup SymbolArgs :
            IsPrefix(ListOf(trades, s), ListOf(trades', s))
        /\ RecordedNext =>
            LET s == lastCall'.symbol
                side == IF lastCall'.order = Omitted THEN "Buy" ELSE lastCall'.order
            IN  ListOf(trades', s) =
                    Append(ListOf(trades, s),
                           [timestamp    |-> now,
                            order        |-> side,
                            quantity     |-> str_to_float(lastCall'.quantity).value,
                            traded_price |-> str_to_float(lastCall'.price).value])
      ]_vars

\* a second trade of a symbol was just recorded, behind an older one
C1_Witness ==
    /\ Recorded
    /\ Len(ListOf(trades, lastCall.symbol)) >= 2
    /\ ListOf(trades, lastCall.symbol)[1].timestamp < now
    /\ ListOf(trades, lastCall.symbol)[1] # lastCall.result.value

----------------------------------------------------------------------------
(* C2 *)

\* C2: a successful record_trade is the only step that changes the trade
\* store.  Every other call (validate_stock_symbol, validate_order,
\* calculate_dividend_yield, calculate_pe_ratio, calculate_vws_price,
\* calculate_gbce), returning or failing, and every failing record_trade
\* leaves the whole store unchanged; a successful record_trade for s
\* leaves the key and the list of every other symbol unchanged.
C2_OnlyRecordTradeWrites ==
    [][ /\ ~RecordedNext => trades' = trades
        /\ RecordedNext =>
            /\ trades' # trades
            /\ \A s \in (Catalog \cup SymbolArgs) \ {lastCall'.symbol} :
                  /\ HasKey(trades', s) <=> HasKey(trades, s)
                  /\ ListOf(trades', s) = ListOf(trades, s)
      ]_vars

\* a record_trade was just rejected for its order, with trades in the store
C2_Witness ==
    /\ lastCall.op = "record_trade"
    /\ Failed(lastCall.result, "InvalidOrderSide")
    /\ HasKey(trades, lastCall.symbol)

----------------------------------------------------------------------------
(* C3 *)

\* C3: calculate_vws_price(s) at time now is computed from exactly the
\* trades of s with timestamp >= now - 5 minutes, the trade stamped at the
\* window start included: its outcome is the outcome on the store with the
\* older trades of s removed, and a value v returned for a traded symbol
\* satisfies v * SUM(quantity) = SUM(price * quantity) over those trades.
C3_WindowOnly ==
    VwsCalled =>
        /\ SameOutcome(lastCall.result,
                       calculate_vws_price(WithoutOld(trades, lastCall.symbol),
                                           now, lastCall.symbol))
        /\ (lastCall.result.ok /\ HasKey(trades, lastCall.symbol)) =>
              LET recent == Recent(Get(trades, lastCall.symbol))
              IN  lastCall.result.value.num * SumQty(recent)
                    = SumAmount(recent) * lastCall.result.value.den

\* a price was computed for a symbol with one trade older than the window
\* and one trade in the window, at another price: it is the price of the
\* trade in the window
C3_Witness ==
    /\ VwsCalled
    /\ lastCall.result.ok
    /\ HasKey(trades, lastCall.symbol)
    /\ LET list == Get(trades, lastCall.symbol)
       IN  /\ Len(list) = 2
           /\ ~InWindow(list[1])
           /\ InWindow(list[2])
           /\ list[1].traded_price # list[2].traded_price
           /\ list[1].quantity # 0
           /\ lastCall.result.value = Quot(list[2].traded_price, 1)

----------------------------------------------------------------------------
(* C4 *)

----------------------------------------------------------------------------
(* C5 *)

\* C5 as stated: wherever at least one trade of s lies in the trailing
\* window, calculate_vws_price(s) returns a value and does not fail with
\* NoTradesInWindow.
C5_AsClaimed ==
    (VwsCalled /\ Recent(ListOf(trades, lastCall.symbol)) # <<>>) => lastCall.result.ok

\* C5 amended: calculate_vws_price(s) fails with NoTradesInWindow exactly
\* when s has a trade list and the quantities of its in-window trades sum
\* to 0 (no trade in the window, or in-window quantities that are zero or
\* cancel); wherever that sum is not 0 it returns a value.
C5_ZeroQuantity ==
    VwsCalled =>
        /\ Failed(lastCall.result, "NoTradesInWindow")
              <=> /\ HasKey(trades, lastCall.symbol)
                  /\ SumQty(Recent(Get(trades, lastCall.symbol))) = 0
        /\ ~Failed(lastCall.result, "NoTradesInWindow") => lastCall.result.ok

\* the price was asked with trades in the window whose quantities sum to 0
C5_Witness ==
    /\ VwsCalled
    /\ Recent(ListOf(trades, lastCall.symbol)) # <<>>
    /\ Failed(lastCall.result, "NoTradesInWindow")

----------------------------------------------------------------------------
(* C6 *)

\* the step from a successful first record_trade of a symbol straight to
\* calculate_vws_price of the same symbol
FirstTradeThenVws ==
    /\ Recorded
    /\ Len(ListOf(trades, lastCall.symbol)) = 1
    /\ lastCall'.op = "calculate_vws_price"
    /\ lastCall'.symbol = lastCall.symbol

\* C6 as stated: for every symbol without trades and every accepted
\* quantity q, price p and side, record_trade(s, q, p, side) followed at
\* once by calculate_vws_price(s) returns exactly p.
C6_AsClaimed ==
    [][ FirstTradeThenVws =>
            Returned(lastCall'.result, Quot(lastCall.result.value.traded_price, 1)) ]_vars

\* C6 amended: the same for every quantity q other than 0; with q = 0 the
\* calculate_vws_price call fails with NoTradesInWindow.
C6_SingleTradePrice ==
    [][ FirstTradeThenVws =>
            IF lastCall.result.value.quantity # 0
            THEN Returned(lastCall'.result, Quot(lastCall.result.value.traded_price, 1))
            ELSE Failed(lastCall'.result, "NoTradesInWindow") ]_vars

\* the price of a symbol was computed at the minute of its only trade,
\* whose quantity is not 1
C6_Witness ==
    /\ VwsCalled
    /\ lastCall.result.ok
    /\ Len(ListOf(trades, lastCall.symbol)) = 1
    /\ Get(trades, lastCall.symbol)[1].timestamp = now
    /\ Get(trades, lastCall.symbol)[1].quantity \notin {0, 1}
    /\ lastCall.result.value = Quot(Get(trades, lastCall.symbol)[1].traded_price, 1)

----------------------------------------------------------------------------
(* C7 *)

\* C7: calculate_gbce called while no symbol has ever been traded ends in
\* a failure and never returns a number.
C7_EmptyStoreFails ==
    (GbceCalled /\ trades = <<>>) => ~lastCall.result.ok

\* the index was asked of an empty store, after time has passed
C7_Witness ==
    /\ GbceCalled
    /\ trades = <<>>
    /\ now > 0
    /\ Failed(lastCall.result, "ZeroDivisionError")

----------------------------------------------------------------------------
(* C8 *)

\* C8: calculate_gbce fails with NoTradesInWindow whenever some traded
\* symbol has all its trades older than 5 minutes, whatever the other
\* symbols hold; and such a symbol stays that way, so the index keeps
\* failing, until a new trade of that symbol is recorded.
C8_StaleSymbolFailsIndex ==
    /\ [](GbceCalled /\ (\E s \in Catalog : Stale(trades, now, s))
            => Failed(lastCall.result, "NoTradesInWindow"))
    /\ [][ \A s \in Catalog :
              (Stale(trades, now, s) /\ ~(RecordedNext /\ lastCall'.symbol = s))
                 => /\ Stale(trades', now', s)
                    /\ Failed(calculate_gbce(trades', now'), "NoTradesInWindow") ]_vars

\* the index was asked while one symbol is stale and another has a trade
\* of nonzero quantity in the window
C8_Witness ==
    /\ GbceCalled
    /\ \E s1, s2 \in Catalog :
          /\ Stale(trades, now, s1)
          /\ HasKey(trades, s2)
          /\ SumQty(Recent(Get(trades, s2))) # 0

----------------------------------------------------------------------------
(* C9 *)

----------------------------------------------------------------------------
(* C10 *)

\* C10: in every reachable state the symbols with a trade list are catalog
\* symbols, each at most once, every trade list is non-empty, every stored
\* trade has side Buy or Sell, and the timestamps of each list are
\* non-decreasing in list order and not later than the clock; a symbol
\* gets its list by a successful record_trade for it and by nothing else,
\* and a record_trade called without a side stores a Buy.
C10_StoreInvariant ==
    /\ [](\A i \in 1..Len(trades) :
            /\ trades[i].symbol \in Catalog
            /\ \A j \in 1..Len(trades) : trades[j].symbol = trades[i].symbol => j = i
            /\ trades[i].list # <<>>
            /\ \A k \in 1..Len(trades[i].list) :
                  /\ trades[i].list[k].order \in {"Buy", "Sell"}
                  /\ trades[i].list[k].timestamp <= now
                  /\ k > 1 => trades[i].list[k - 1].timestamp <= trades[i].list[k].timestamp)
    /\ [][ /\ \A s \in Catalog \cup SymbolArgs :
                (HasKey(trades', s) /\ ~HasKey(trades, s))
                    <=> (RecordedNext /\ lastCall'.symbol = s /\ ~HasKey(trades, s))
           /\ (RecordedNext /\ lastCall'.order = Omitted) =>
                 lastCall'.result.value.order = "Buy" ]_vars

\* a trade was just recorded without a side, behind an older Sell
C10_Witness ==
    /\ Recorded
    /\ lastCall.order = Omitted
    /\ Len(ListOf(trades, lastCall.symbol)) = 2
    /\ ListOf(trades, lastCall.symbol)[1].order = "Sell"
    /\ ListOf(trades, lastCall.symbol)[1].timestamp < now

====
